---- MODULE Spec2Model ----
(***************************************************************************)
(* Voting application (bruno2fly/voting-app): artist registry, vote        *)
(* admission (POST /api/vote) and the vote store with its uniqueness       *)
(* constraint.  The repository holds three iterations of the same server;  *)
(* the variable `variant` says which one is running:                       *)
(*   "app.js"    src/app.js                                                *)
(*   "part_000"  src/unnamed/part_000                                      *)
(*   "part_001"  src/unnamed/part_001                                      *)
(* Time is counted in whole minutes; JS numbers are kept in halves.        *)
(***************************************************************************)
EXTENDS Integers, Sequences, FiniteSets, TLC

\* ---------------------------------------------------------------- bounds
MaxArtists == 1
WindowMinutes == 1
MaxConcurrent == 3


Variants == {"app.js", "part_000", "part_001"}

VARIABLES
    variant,              \* which iteration of the server runs
    VOTE_WINDOW_MINUTES,  \* process configuration, 0 = unlimited mode
    tieOrder,             \* how the SQL engine orders rows whose sort keys tie
    issued,               \* the server has set the staff cookie on the caller
    artists,              \* table artists, in id order (id = position)
    votes,                \* table votes, a set of rows
    now,                  \* wall clock: minutes since the first vote was stored
    resp,                 \* the request just handled and the response sent
    inflight              \* requests between admission and insert (race model)

vars == <<variant, VOTE_WINDOW_MINUTES, tieOrder, issued, artists, votes, now, resp, inflight>>

\* The clock is followed until one minute past the revote window.
MaxTime == VOTE_WINDOW_MINUTES + 1

\* ------------------------------------------------------------- JS values
\* A JSON body field.  Numbers are kept in halves (h = 2 * value) so that
\* 3.5 is representable; nan marks NaN.
Num(h) == [t |-> "number", nan |-> FALSE, h |-> h, s |-> ""]
NaN == [t |-> "number", nan |-> TRUE, h |-> 0, s |-> ""]
Null == [t |-> "null", nan |-> FALSE, h |-> 0, s |-> ""]
Undefined == [t |-> "undefined", nan |-> FALSE, h |-> 0, s |-> ""]
Str(s) == [t |-> "string", nan |-> FALSE, h |-> 0, s |-> s]
Whole(n) == Num(2 * n)

\* typeof x === 'number'
TypeofNumber(x) == x.t = "number"

\* Number(x): null and the empty string become 0, undefined and
\* non-numeric text become NaN.
ToNumber(x) ==
    CASE x.t = "number"    -> x
      [] x.t = "null"      -> Whole(0)
      [] x.t = "undefined" -> NaN
      [] x.t = "string"    -> IF x.s = "" THEN Whole(0) ELSE NaN

NumberIsInteger(n) == n.t = "number" /\ ~n.nan /\ n.h % 2 = 0

\* score < 0 || score > 10 ; every comparison with NaN is false
OutOfRange(n) == ~n.nan /\ (n.h < 0 \/ n.h > 20)

\* s.trim(), on the texts of the model
MutTrim(name) == name
Trim(name) ==
    IF name = "  " THEN ""
    ELSE IF name = " hunter2 " THEN "hunter2"
    ELSE IF name = " B " THEN "B"
    ELSE name

\* ------------------------------------------------------------ identities
\* Every request of Spec arrives from one transport-layer address; the
\* x-forwarded-for header is whatever the request carries.
Remotes == {"A"}

\* The header x-forwarded-for split at its commas: a sequence of entries,
\* <<>> when the header is absent.
RECURSIVE LastEntry(_)
LastEntry(xff) ==
    IF xff = <<>> THEN ""
    ELSE IF Trim(xff[Len(xff)]) # "" THEN Trim(xff[Len(xff)])
    ELSE LastEntry(SubSeq(xff, 1, Len(xff) - 1))

\* req.ip under app.set('trust proxy', 1): the last entry of the header,
\* one hop before the socket, or the socket address without any entry.
ReqIp(req) == IF LastEntry(req.xff) # "" THEN LastEntry(req.xff) ELSE req.remote

\* What clientIp falls back to: req.socket.remoteAddress in app.js,
\* req.ip || req.connection.remoteAddress in part_000 and part_001.
\* "" is an address the socket no longer has (undefined).
TransportAddress(req) ==
    IF variant = "app.js" THEN req.remote
    ELSE IF ReqIp(req) # "" THEN ReqIp(req) ELSE req.remote

\* clientIp: first entry of x-forwarded-for, trimmed, else the transport
\* address, else the sentinel.
MutClientIp(req) ==
    IF req.xff # <<>> /\ Trim(Head(req.xff)) # "" THEN Trim(Head(req.xff))
    ELSE TransportAddress(req)
clientIp(req) ==
    IF req.xff # <<>> /\ Trim(Head(req.xff)) # "" THEN Trim(Head(req.xff))
    ELSE IF TransportAddress(req) # "" THEN TransportAddress(req)
    ELSE "0.0.0.0"

SALT == "salt"

\* ipHash: a keyed one-way digest; modelled as an injective tagged value.
ipHash(ip) == <<"sha256", ip, SALT>>

\* cookieGuard: the voter cookie of the request, or a fresh random token.
\* Cookie 0 = no cookie sent; fresh is the token drawn for this request.
Cookies == {1}
cookieGuard(req, fresh) == IF req.cookie = 0 THEN fresh ELSE req.cookie

\* A token no client holds and no stored row carries: the random draw of
\* nanoid() / randomBytes(16).
FreshTokens == {100 + k : k \in 0..Cardinality(votes)}
Unused(rows) == CHOOSE t \in FreshTokens :
    /\ \A v \in rows : v.cookie_guard # t
    /\ \A u \in FreshTokens : (\A v \in rows : v.cookie_guard # u) => t <= u

\* ------------------------------------------------------------ statements
\* getArtistById.get(id): a row or none; id is a JS number.
MutArtistExists(n) == ~n.nan
ArtistExists(n) == ~n.nan /\ \E i \in 1..Len(artists) : 2 * i = n.h

\* rows of votes for (artist_id, ip_hash)
VotesOf(rows, aid, hash) ==
    {v \in rows : v.artist_id = aid /\ v.ip_hash = hash}

\* getVoteByArtistAndIp.get
getVoteByArtistAndIp(aid, hash) == VotesOf(votes, aid, hash)

\* getLastVoteByIp: ORDER BY id DESC LIMIT 1.  Ids grow with insertion
\* time, so the row of greatest id is a row of greatest created_at.
getLastVoteByIp(aid, hash) ==
    LET S == VotesOf(votes, aid, hash)
    IN  CHOOSE v \in S : \A w \in S : w.created_at <= v.created_at

\* countVotesByCookie
countVotesByCookie(aid, token) ==
    Cardinality({v \in votes : v.artist_id = aid /\ v.cookie_guard = token})

\* UNIQUE (artist_id, ip_hash) / uniq_artist_ip
MutUniqueViolation(row) == FALSE
UniqueViolation(row) == VotesOf(votes, row.artist_id, row.ip_hash) # {}

\* CHECK(score BETWEEN 0 AND 10), declared by app.js only
CheckViolation(row) == variant = "app.js" /\ (row.score < 0 \/ row.score > 20)

\* FOREIGN KEY(artist_id) REFERENCES artists(id), declared by app.js only
ForeignKeyViolation(row) ==
    variant = "app.js" /\ row.artist_id \notin 1..Len(artists)

\* insertVote.run throws on a constraint violation, else the row is added.
InsertThrows(row) ==
    UniqueViolation(row) \/ CheckViolation(row) \/ ForeignKeyViolation(row)

\* ------------------------------------------------------------- responses
Reply(status, error, retry) == [status |-> status, error |-> error, retry |-> retry]
\* The retry estimate of a reply: {} when the message carries none.
NoRetry == {}
Pass == Reply(0, "pass", NoRetry)

\* The fields a handler works with: app.js takes them as sent, the other
\* two variants convert them with Number().
ParsedArtistId(req) ==
    IF variant = "app.js" THEN req.artist_id ELSE ToNumber(req.artist_id)
ParsedScore(req) ==
    IF variant = "app.js" THEN req.score ELSE ToNumber(req.score)

\* Validation of the body, per variant: a reply, or Pass.
ValidateAppJs(req) ==
    IF ~TypeofNumber(req.artist_id) \/ ~TypeofNumber(req.score)
    THEN Reply(400, "required", NoRetry)
    ELSE IF OutOfRange(req.score) \/ ~NumberIsInteger(req.score)
    THEN Reply(400, "range", NoRetry)
    ELSE Pass

MutValidatePart(req) ==
    IF ~NumberIsInteger(ToNumber(req.artist_id)) \/ ~NumberIsInteger(ToNumber(req.score))
    THEN Reply(400, "required", NoRetry)
    ELSE Pass
ValidatePart(req) ==
    IF ~NumberIsInteger(ToNumber(req.artist_id)) \/ ~NumberIsInteger(ToNumber(req.score))
    THEN Reply(400, "required", NoRetry)
    ELSE IF OutOfRange(ToNumber(req.score))
    THEN Reply(400, "range", NoRetry)
    ELSE Pass

Validate(req) == IF variant = "app.js" THEN ValidateAppJs(req) ELSE ValidatePart(req)

\* The duplicate check of app.js, followed by its cookie guard.
DupCheckAppJs(aid, hash, token) ==
    IF VOTE_WINDOW_MINUTES > 0
       /\ \E v \in VotesOf(votes, aid, hash) : v.created_at >= now - VOTE_WINDOW_MINUTES
    THEN Reply(409, "recent", NoRetry)
    ELSE IF VOTE_WINDOW_MINUTES <= 0 /\ getVoteByArtistAndIp(aid, hash) # {}
    THEN Reply(409, "already", NoRetry)
    ELSE IF countVotesByCookie(aid, token) > 0
    THEN Reply(409, "cookie", NoRetry)
    ELSE Pass

\* The window check of part_000 and part_001.
DupCheckPart(aid, hash) ==
    IF VOTE_WINDOW_MINUTES > 0 /\ VotesOf(votes, aid, hash) # {}
    THEN LET minutes == now - getLastVoteByIp(aid, hash).created_at IN
         IF minutes < VOTE_WINDOW_MINUTES
         THEN Reply(409, "too_soon", {VOTE_WINDOW_MINUTES - minutes})
         ELSE Pass
    ELSE Pass

\* Everything POST /api/vote does before the insert: a reply, or Pass.
MutAdmission(req, fresh) ==
    IF ~ArtistExists(ParsedArtistId(req)) THEN Reply(404, "not_found", NoRetry)
    ELSE IF Validate(req).error # "pass" THEN Validate(req)
    ELSE IF variant = "app.js"
         THEN DupCheckAppJs(ParsedArtistId(req).h \div 2, ipHash(clientIp(req)),
                            cookieGuard(req, fresh))
         ELSE DupCheckPart(ParsedArtistId(req).h \div 2, ipHash(clientIp(req)))
Admission(req, fresh) ==
    LET v == Validate(req) IN
    IF v.error # "pass" THEN v
    ELSE IF ~ArtistExists(ParsedArtistId(req)) THEN Reply(404, "not_found", NoRetry)
    ELSE LET aid == ParsedArtistId(req).h \div 2
             hash == ipHash(clientIp(req))
         IN  IF variant = "app.js"
             THEN DupCheckAppJs(aid, hash, cookieGuard(req, fresh))
             ELSE DupCheckPart(aid, hash)

\* The row POST /api/vote inserts (score in halves, as every JS number).
MutVoteRow(req, fresh) ==
    [artist_id    |-> ParsedArtistId(req).h \div 2,
     score        |-> 0,
     ip_hash      |-> ipHash(clientIp(req)),
     cookie_guard |-> IF variant = "app.js" THEN cookieGuard(req, fresh) ELSE 0,
     created_at   |-> now]
VoteRow(req, fresh) ==
    [artist_id    |-> ParsedArtistId(req).h \div 2,
     score        |-> ParsedScore(req).h,
     ip_hash      |-> ipHash(clientIp(req)),
     cookie_guard |-> IF variant = "app.js" THEN cookieGuard(req, fresh) ELSE 0,
     created_at   |-> now]

\* The reply when insertVote.run throws.
MutInsertFailedReply == Reply(500, "server", NoRetry)
InsertFailedReply ==
    IF variant = "app.js" THEN Reply(400, "not_recorded", NoRetry)
    ELSE Reply(409, "already", NoRetry)

\* The table after insertVote.run answered out: the row is added when the
\* insert went through.
MutStoreAfter(row, out) ==
    (votes \ VotesOf(votes, row.artist_id, row.ip_hash)) \cup {row}
StoreAfter(row, out) == IF out.status = 200 THEN votes \cup {row} ELSE votes

\* The insert and the reply that follows it.
MutPersist(row) == Reply(200, "ok", NoRetry)
Persist(row) ==
    IF InsertThrows(row) THEN InsertFailedReply ELSE Reply(200, "ok", NoRetry)

\* ---------------------------------------------------------------- inputs
ArtistIdInputs == {Whole(i) : i \in 1..(MaxArtists + 1)}
ScoreInputs == {Whole(-1), Whole(7), Whole(11), Num(7), Null, Undefined, Str(""), Str("abc")}
XffInputs == {<<>>, <<"B">>}
CookieInputs == {0} \cup Cookies

VoteRequests ==
    [artist_id : ArtistIdInputs, score : ScoreInputs,
     remote : Remotes, xff : XffInputs, cookie : CookieInputs]

NoResp == [route |-> "none"]

\* ------------------------------------------------------------------ Init
\* Spec follows the vote and artist API; the leaderboard is followed under
\* SpecBoard and the staff routes under SpecStaff, so tieOrder and issued are
\* not read here.
Init ==
    /\ variant \in Variants
    /\ VOTE_WINDOW_MINUTES \in {0, WindowMinutes}
    /\ tieOrder = "asc"
    /\ issued = FALSE
    /\ artists = <<>>
    /\ votes = {}
    /\ now = 0
    /\ resp = NoResp
    /\ inflight = <<>>

\* --------------------------------------------------------------- actions
\* POST /api/vote, the whole handler, for the request req.  resp keeps the
\* request, the origin the handler resolved, the reply and the tables as the
\* handler found them.
HandleVote(req) ==
    LET fresh == Unused(votes)
        a == Admission(req, fresh)
        row == VoteRow(req, fresh)
        out == IF a.error # "pass" THEN a ELSE Persist(row)
    IN  /\ resp = NoResp
        /\ votes' = StoreAfter(row, out)
        /\ resp' = [route |-> "vote", req |-> req, status |-> out.status,
                    error |-> out.error, retry |-> out.retry,
                    threw |-> (a.error = "pass" /\ out.status # 200),
                    before |-> votes, registry |-> artists]
        /\ UNCHANGED <<variant, VOTE_WINDOW_MINUTES, tieOrder, issued, artists, now, inflight>>

PostVote == \E req \in VoteRequests : HandleVote(req)

\* POST /api/artists
\* req.body.name: text; "" also stands for a missing name, which
\* (req.body.name || '') turns into ''.
Names == {"", "  ", "Ana"}
Suffixes == {"x1", "x2"}
Slugify(name) == IF name = "Ana" THEN "ana" ELSE IF name = "Bob" THEN "bob" ELSE "-"

\* isStaff(req): the request carries the cookie staff=ok.  A request is
\* [staff, name]; staff says whether that cookie is sent.
isStaff(req) == req.staff

\* The body of both creation routes after the staff gate: trim, reject an
\* empty name, build the slug with the drawn suffix, insert; the insert
\* throws when the slug exists (slug TEXT NOT NULL UNIQUE).
CreateArtist(req, suffix) ==
    LET name == Trim(req.name)
        slug == <<Slugify(name), suffix>>
    IN  IF name = "" THEN Reply(400, "name_required", NoRetry)
        ELSE IF \E i \in 1..Len(artists) : artists[i].slug = slug
        THEN Reply(400, "not_created", NoRetry)
        ELSE Reply(200, "ok", NoRetry)

ArtistRequests == [staff : BOOLEAN, name : Names]

\* The registry after a creation request answered out; it holds at most
\* MaxArtists artists.
Created(req, suffix, out) ==
    IF out.status = 200
    THEN Append(artists, [name |-> Trim(req.name), slug |-> <<Slugify(Trim(req.name)), suffix>>])
    ELSE artists

PostApiArtists ==
    \E req \in ArtistRequests, suffix \in Suffixes :
        LET out == IF variant # "app.js" /\ ~isStaff(req)
                   THEN Reply(403, "forbidden", NoRetry)
                   ELSE CreateArtist(req, suffix)
        IN  /\ resp = NoResp
            /\ out.status = 200 => Len(artists) < MaxArtists
            /\ artists' = Created(req, suffix, out)
            /\ resp' = [route |-> "artists", staff |-> req.staff, name |-> req.name,
                        status |-> out.status, error |-> out.error,
                        registry |-> artists]
            /\ UNCHANGED <<variant, VOTE_WINDOW_MINUTES, tieOrder, issued, votes, now, inflight>>

\* The clock advances.  Nothing reads it before a vote exists, so it is
\* followed from the first vote on.
Tick ==
    /\ resp = NoResp
    /\ votes # {}
    /\ now < MaxTime
    /\ now' = now + 1
    /\ UNCHANGED <<variant, VOTE_WINDOW_MINUTES, tieOrder, issued, artists, votes, resp, inflight>>

\* The response leaves the server; the next request is taken up.
Deliver ==
    /\ resp # NoResp
    /\ resp' = NoResp
    /\ UNCHANGED <<variant, VOTE_WINDOW_MINUTES, tieOrder, issued, artists, votes, now, inflight>>

Next == PostVote \/ PostApiArtists \/ Tick \/ Deliver

Spec == Init /\ [][Next]_vars

\* ------------------------------------------------------------ race model
\* Several processes serve the same database file: a request's admission
\* and its insert are two steps, and other requests run between them.
\* A slot is idle, admitted (past admission, insert pending) or done.
Slots == 1..MaxConcurrent
Idle == [pc |-> "idle"]

\* The racing submissions: a valid score for the existing artist 1.
RaceRequests ==
    [artist_id : {Whole(1)}, score : {Whole(7)},
     remote : Remotes, xff : XffInputs, cookie : CookieInputs]

RaceInit ==
    /\ variant \in Variants
    /\ VOTE_WINDOW_MINUTES = 0
    /\ tieOrder = "asc"
    /\ issued = FALSE
    /\ artists = <<[name |-> "Ana", slug |-> <<"ana", "x1">>]>>
    /\ votes = {}
    /\ now = 0
    /\ resp = NoResp
    /\ inflight = [i \in Slots |-> Idle]

\* A submission arrives and runs up to its insert.  All racers share one
\* voter identity; each without a cookie draws its own token.
RaceReceive ==
    \E i \in Slots, req \in RaceRequests :
        LET a == Admission(req, 200 + i) IN
        /\ inflight[i].pc = "idle"
        /\ \A j \in Slots : j < i => inflight[j].pc # "idle"
        /\ \A j \in Slots : inflight[j].pc # "idle"
                => clientIp(inflight[j].req) = clientIp(req)
        /\ inflight' = [inflight EXCEPT ![i] =
               IF a.error = "pass"
               THEN [pc |-> "admitted", req |-> req, status |-> 0,
                     error |-> "pass", threw |-> FALSE]
               ELSE [pc |-> "done", req |-> req, status |-> a.status,
                     error |-> a.error, threw |-> FALSE]]
        /\ UNCHANGED <<variant, VOTE_WINDOW_MINUTES, tieOrder, issued, artists, votes, now, resp>>

\* An admitted submission runs its insert and replies.
RacePersist ==
    \E i \in Slots :
        LET row == VoteRow(inflight[i].req, 200 + i)
            out == Persist(row)
        IN  /\ inflight[i].pc = "admitted"
            /\ votes' = StoreAfter(row, out)
            /\ inflight' = [inflight EXCEPT ![i] =
                   [pc |-> "done", req |-> inflight[i].req, status |-> out.status,
                    error |-> out.error, threw |-> out.status # 200]]
            /\ UNCHANGED <<variant, VOTE_WINDOW_MINUTES, tieOrder, issued, artists, now, resp>>

RaceNext == RaceReceive \/ RacePersist

SpecRace == RaceInit /\ [][RaceNext]_vars

\* ----------------------------------------------------------- leaderboard
\* The votes joined to artist i: LEFT JOIN votes v ON v.artist_id = a.id
JoinedVotes(i) == {v \in votes : v.artist_id = i}

\* SUM(v.score) over a group; stored scores are in halves.
RECURSIVE SumScore(_)
SumScore(S) ==
    IF S = {} THEN 0
    ELSE LET v == CHOOSE x \in S : TRUE
         IN  (v.score \div 2) + SumScore(S \ {v})

\* ROUND(AVG(v.score), 2) of a non-empty group, in hundredths: the nearest
\* hundredth of total / n, halves rounded away from zero.
Round2(total, n) == (200 * total + n) \div (2 * n)

\* One row of leaderboardStmt.  A column the statement does not select, and
\* an SQL NULL, is the empty set; a value x is {x}.  app.js selects no
\* total_score.  avg_score is in hundredths.
LeaderboardRow(i) ==
    LET S == JoinedVotes(i)
    IN  [id          |-> i,
         name        |-> artists[i].name,
         votes       |-> Cardinality(S),
         total_score |-> IF variant = "app.js" THEN {} ELSE {SumScore(S)},
         avg_score   |-> IF S = {} THEN {} ELSE {Round2(SumScore(S), Cardinality(S))}]

\* Text comparison of names (BINARY collation) on the names of the model.
NameOrder == <<"Ana", "Bob">>
NameLess(a, b) ==
    \E i, j \in 1..Len(NameOrder) : i < j /\ NameOrder[i] = a /\ NameOrder[j] = b

\* x DESC on a nullable column, NULLS LAST: r sorts strictly before s.
DescNullsLast(r, s) ==
    r # {} /\ (s = {} \/ \E x \in r, y \in s : x > y)

\* ORDER BY of app.js: avg_score DESC NULLS LAST, votes DESC, a.created_at ASC.
\* Artists are created in distinct seconds, so created_at orders as id does.
OrderByAppJs(r, s) ==
    \/ DescNullsLast(r.avg_score, s.avg_score)
    \/ /\ r.avg_score = s.avg_score
       /\ \/ r.votes > s.votes
          \/ r.votes = s.votes /\ r.id < s.id

\* ORDER BY of part_000 and part_001: total_score DESC, votes DESC, a.name ASC.
OrderByPart(r, s) ==
    \/ DescNullsLast(r.total_score, s.total_score)
    \/ /\ r.total_score = s.total_score
       /\ \/ r.votes > s.votes
          \/ r.votes = s.votes /\ NameLess(r.name, s.name)

OrderBy(r, s) == IF variant = "app.js" THEN OrderByAppJs(r, s) ELSE OrderByPart(r, s)

\* Rows whose sort keys tie come in an order SQL leaves to the engine; the
\* engine is deterministic, its choice is fixed for the run.
MutEngineBefore(i, j) == IF resp = [route |-> "none"] THEN i < j ELSE i > j
EngineBefore(i, j) == IF tieOrder = "asc" THEN i < j ELSE i > j

\* Row i comes before row j in the result.
Precedes(i, j) ==
    LET r == LeaderboardRow(i)
        s == LeaderboardRow(j)
    IN  OrderBy(r, s) \/ (~OrderBy(s, r) /\ EngineBefore(i, j))

\* leaderboardStmt.all(): the rows, in result order.
leaderboardStmt ==
    LET n == Len(artists)
        Rank(i) == 1 + Cardinality({j \in 1..n : j # i /\ Precedes(j, i)})
    IN  [k \in 1..n |-> LeaderboardRow(CHOOSE i \in 1..n : Rank(i) = k)]

\* GET /api/leaderboard (and the page /leaderboard, which renders the same
\* rows).  A second query may follow at once; prev keeps what the query
\* before it returned.
GetApiLeaderboard ==
    /\ resp = NoResp \/ resp.route = "leaderboard"
    /\ resp' = [route |-> "leaderboard", rows |-> leaderboardStmt,
                prev |-> IF resp = NoResp THEN {} ELSE {resp.rows},
                before |-> votes, registry |-> artists]
    /\ UNCHANGED <<variant, VOTE_WINDOW_MINUTES, tieOrder, issued, artists, votes, now, inflight>>

\* The leaderboard is followed on stores with BoardArtists artists, in
\* unlimited mode.  The first artist's name varies, the others are "Ana":
\* equal names, and names whose order is not the order of creation.  The
\* i-th artist drew the slug suffix i.
BoardArtists == 2
BoardNames == {"Ana", "Bob"}
BoardRegistries ==
    {[i \in 1..BoardArtists |->
        [name |-> IF i = 1 THEN first ELSE "Ana",
         slug |-> <<Slugify(IF i = 1 THEN first ELSE "Ana"), i>>]] : first \in BoardNames}

\* A third identity, C, may have voted for artist 1 before.
SeedScores == {3}
SeedVote(score) ==
    [artist_id |-> 1, score |-> 2 * score, ip_hash |-> ipHash("C"),
     cookie_guard |-> IF variant = "app.js" THEN 300 ELSE 0, created_at |-> 0]

BoardInit ==
    /\ variant \in Variants
    /\ VOTE_WINDOW_MINUTES = 0
    /\ tieOrder \in {"asc", "desc"}
    /\ issued = FALSE
    /\ artists \in BoardRegistries
    /\ votes \in {{}} \cup {{SeedVote(x)} : x \in SeedScores}
    /\ now = 0
    /\ resp = NoResp
    /\ inflight = <<>>

BoardNext == PostVote \/ GetApiLeaderboard \/ Deliver

SpecBoard == BoardInit /\ [][BoardNext]_vars


\* ------------------------------------------------------- origin resolution
\* Vote submissions as clientIp sees them: the socket address ("" when the
\* socket has none left) and the entries of x-forwarded-for, for one
\* registered artist in unlimited mode.
IpRemotes == {"A", ""}
IpHeaders == {<<>>, <<"">>, <<"B">>, <<" B ">>, <<"B", "C">>, <<"", "B">>, <<"  ", "B">>}
IpRequests ==
    [artist_id : {Whole(1)}, score : {Whole(7)},
     remote : IpRemotes, xff : IpHeaders, cookie : {0}]

IpInit ==
    /\ variant \in Variants
    /\ VOTE_WINDOW_MINUTES = 0
    /\ tieOrder = "asc"
    /\ issued = FALSE
    /\ artists = <<[name |-> "Ana", slug |-> <<Slugify("Ana"), "x1">>]>>
    /\ votes = {}
    /\ now = 0
    /\ resp = NoResp
    /\ inflight = <<>>

IpVote == \E req \in IpRequests : HandleVote(req)

IpNext == IpVote \/ Deliver

SpecIp == IpInit /\ [][IpNext]_vars

\* ----------------------------------------------------------------- staff
STAFF_PASS == "hunter2"
Passwords == {"", "wrong", "hunter2", " hunter2 "}

\* POST /staff-login: the trimmed password is compared with STAFF_PASS; on
\* a match the cookie staff=ok is set and the caller is redirected.
PostStaffLogin ==
    \E pw \in Passwords :
        LET password == Trim(pw)
            ok == password # "" /\ password = STAFF_PASS
        IN  /\ resp = NoResp
            /\ issued' = (issued \/ ok)
            /\ resp' = [route |-> "login", password |-> pw,
                        status |-> IF ok THEN 302 ELSE 401,
                        setCookie |-> ok, registry |-> artists]
            /\ UNCHANGED <<variant, VOTE_WINDOW_MINUTES, tieOrder, artists, votes, now, inflight>>

\* GET /logout (app.js): clears the cookie in the caller's browser.  What
\* the server once issued stays known to the caller.
GetLogout ==
    /\ variant = "app.js"
    /\ resp = NoResp
    /\ resp' = [route |-> "logout", status |-> 302, registry |-> artists]
    /\ UNCHANGED <<variant, VOTE_WINDOW_MINUTES, tieOrder, issued, artists, votes, now, inflight>>

\* POST /artists (app.js): the form route, behind the staff gate; a created
\* artist is answered with a redirect to /staff.
PostArtists ==
    \E req \in ArtistRequests, suffix \in Suffixes :
        LET out == IF ~isStaff(req) THEN Reply(403, "forbidden", NoRetry)
                   ELSE CreateArtist(req, suffix)
        IN  /\ variant = "app.js"
            /\ resp = NoResp
            /\ out.status = 200 => Len(artists) < MaxArtists
            /\ artists' = Created(req, suffix, out)
            /\ resp' = [route |-> "artists_form", staff |-> req.staff, name |-> req.name,
                        status |-> IF out.status = 200 THEN 302 ELSE out.status,
                        error |-> out.error, registry |-> artists]
            /\ UNCHANGED <<variant, VOTE_WINDOW_MINUTES, tieOrder, issued, votes, now, inflight>>

StaffInit ==
    /\ variant \in Variants
    /\ VOTE_WINDOW_MINUTES = 0
    /\ tieOrder = "asc"
    /\ issued = FALSE
    /\ artists = <<>>
    /\ votes = {}
    /\ now = 0
    /\ resp = NoResp
    /\ inflight = <<>>

StaffNext == PostStaffLogin \/ GetLogout \/ PostApiArtists \/ PostArtists \/ Deliver

SpecStaff == StaffInit /\ [][StaffNext]_vars

\* ================================================================ claims
IsVote == resp.route = "vote"

\* The request's score is an integer from 0 to 10.
ReqValidScore ==
    LET x == resp.req.score
    IN  x.t = "number" /\ ~x.nan /\ x.h % 2 = 0 /\ 0 <= x.h /\ x.h <= 20

\* The request's artist_id is the id of a registered artist.
ReqKnownArtist ==
    LET x == resp.req.artist_id
    IN  x.t = "number" /\ ~x.nan /\ x.h % 2 = 0 /\ (x.h \div 2) \in 1..Len(artists)

\* The votes the caller's identity had for the artist when the request came.
PriorVotes == VotesOf(resp.before, resp.req.artist_id.h \div 2, ipHash(clientIp(resp.req)))

\* Minutes since the latest of them.
PriorAge ==
    LET v == CHOOSE x \in PriorVotes : \A w \in PriorVotes : w.created_at <= x.created_at
    IN  now - v.created_at

\* C1: in every reachable state there is at most one stored vote per
\* (artist_id, voter identity hash) pair, in unlimited and in windowed mode.
C1_OneVotePerPair ==
    \A v, w \in votes :
        (v.artist_id = w.artist_id /\ v.ip_hash = w.ip_hash) => v = w

\* A valid revote arrived after the window had elapsed, and the pair still
\* has its single row.
C1_Witness ==
    /\ IsVote /\ VOTE_WINDOW_MINUTES > 0
    /\ ReqValidScore /\ ReqKnownArtist
    /\ PriorVotes # {} /\ PriorAge > VOTE_WINDOW_MINUTES
    /\ Cardinality(votes) = 2

\* C2: in unlimited mode, of N >= 2 concurrent valid submissions of one
\* identity for one artist, whose admission and insert steps interleave in
\* any order, exactly one is accepted and exactly one row of the pair exists.
RaceDone == {i \in Slots : inflight[i].pc = "done"}
RaceAccepted == {i \in RaceDone : inflight[i].status = 200}
RaceSettled == \A i \in Slots : inflight[i].pc # "admitted"
C2_ExactlyOneWins ==
    /\ Cardinality(RaceAccepted) <= 1
    /\ (RaceSettled /\ Cardinality(RaceDone) >= 2) =>
          /\ Cardinality(RaceAccepted) = 1
          /\ \A i \in RaceDone :
                Cardinality(VotesOf(votes, 1, ipHash(clientIp(inflight[i].req)))) = 1

\* All racers were admitted before any of them inserted, and all are done.
C2_Witness ==
    /\ \A i \in Slots : inflight[i].pc = "done"
    /\ Cardinality({i \in Slots : inflight[i].threw}) = MaxConcurrent - 1

\* C3: when the insert fails on the uniqueness constraint after the
\* duplicate check has passed, the answer is 409 AlreadyVoted, not 400 or
\* 500, and no vote is added: the pair keeps its single row.
C3_InsertFailureIs409 ==
    \A i \in Slots :
        (inflight[i].pc = "done" /\ inflight[i].threw) =>
            /\ inflight[i].status = 409
            /\ inflight[i].error = "already"
            /\ Cardinality(VotesOf(votes, 1, ipHash(clientIp(inflight[i].req)))) = 1

\* C4: in unlimited mode a valid submission for an existing artist from an
\* identity that already has a vote for it is rejected with 409
\* AlreadyVoted, whatever the age of that vote, and the store is unchanged.
C4_RepeatRejected ==
    (IsVote /\ VOTE_WINDOW_MINUTES = 0 /\ ReqValidScore /\ ReqKnownArtist
        /\ PriorVotes # {}) =>
        (resp.status = 409 /\ resp.error = "already" /\ votes = resp.before)

\* A repeat vote, a minute after the first, was rejected.
C4_Witness ==
    /\ IsVote /\ VOTE_WINDOW_MINUTES = 0 /\ ReqValidScore /\ ReqKnownArtist
    /\ PriorVotes # {} /\ PriorAge > 0
    /\ resp.status = 409

\* C5: in windowed mode a valid submission from an identity whose vote for
\* the artist is older than the window is accepted with 200.
C5_RevoteAfterWindow ==
    (IsVote /\ VOTE_WINDOW_MINUTES > 0 /\ ReqValidScore /\ ReqKnownArtist
        /\ PriorVotes # {} /\ PriorAge > VOTE_WINDOW_MINUTES) =>
        resp.status = 200

\* C6: in windowed mode a submission from an identity whose vote for the
\* artist is younger than the window is rejected with 409 TooSoon, the
\* reply carries the retry estimate W - elapsed, and no vote is stored.
C6_TooSoonWithRetry ==
    (IsVote /\ VOTE_WINDOW_MINUTES > 0 /\ ReqValidScore /\ ReqKnownArtist
        /\ PriorVotes # {} /\ PriorAge < VOTE_WINDOW_MINUTES) =>
        /\ resp.status = 409
        /\ resp.error \in {"too_soon", "recent"}
        /\ resp.retry = {VOTE_WINDOW_MINUTES - PriorAge}
        /\ votes = resp.before

\* C7: every stored vote has an integer score from 0 to 10 (scores are in
\* halves: even, from 0 to 20).
C7_StoredScoreInRange ==
    \A v \in votes : v.score % 2 = 0 /\ 0 <= v.score /\ v.score <= 20

\* A vote has just been accepted and stored.
C7_Witness == IsVote /\ resp.status = 200 /\ votes # resp.before

\* C8: the checks apply in the order score, artist, duplicate: a numeric
\* score that is not an integer or is out of range gives 400 even when the
\* artist is unknown or the identity has already voted, and a valid score
\* for an unknown artist gives 404.
ReqBadNumber ==
    LET x == resp.req.score
    IN  x.t = "number" /\ (x.nan \/ x.h % 2 # 0 \/ x.h < 0 \/ x.h > 20)
C8_FirstFailingCheck ==
    IsVote =>
        /\ ReqBadNumber => resp.status = 400
        /\ (ReqValidScore /\ ~ReqKnownArtist) => resp.status = 404

\* An out-of-range score from an identity that has already voted for the
\* artist was answered 400.
C8_Witness ==
    /\ IsVote /\ ReqBadNumber /\ ReqKnownArtist /\ PriorVotes # {}
    /\ resp.status = 400

\* C9: a submission whose score is missing, null, empty or not a number is
\* rejected with 400 and stores no vote; stated for a registered artist, so
\* that the score alone decides the reply.
C9_MalformedScoreRejected ==
    (IsVote /\ resp.req.score.t # "number" /\ ReqKnownArtist) =>
        (resp.status = 400 /\ votes = resp.before)

\* C10: a submission for an artist_id that is not in the registry is
\* rejected (404 when its score is valid) and stores nothing; every stored
\* vote's artist_id references a registered artist.
C10_VotesReferenceArtists ==
    /\ \A v \in votes : v.artist_id \in 1..Len(artists)
    /\ (IsVote /\ ~ReqKnownArtist) =>
          /\ resp.status \in {400, 404}
          /\ ReqValidScore => (resp.status = 404 /\ resp.error = "not_found")
          /\ votes = resp.before

\* A valid vote for an unregistered id was answered 404 while another
\* artist is registered and has a vote.
C10_Witness ==
    /\ IsVote /\ ~ReqKnownArtist /\ ReqValidScore
    /\ resp.status = 404
    /\ votes # {}

\* C11: a POST /api/vote answered 200 adds exactly one row, holding the
\* submitted artist_id, the submitted (numeric) score and the caller's
\* identity hash, and nothing else changes; a rejected one leaves the vote
\* table and the registry as they were.
C11_AcceptAddsOneRow ==
    IsVote =>
        /\ resp.registry = artists
        /\ resp.status # 200 => votes = resp.before
        /\ resp.status = 200 =>
              \E row \in votes \ resp.before :
                  /\ votes = resp.before \cup {row}
                  /\ 2 * row.artist_id = resp.req.artist_id.h
                  /\ row.ip_hash = ipHash(clientIp(resp.req))
                  /\ ReqValidScore => row.score = resp.req.score.h

\* A second identity's vote was accepted and added beside the first.
C11_Witness ==
    /\ IsVote /\ resp.status = 200 /\ ReqValidScore
    /\ resp.before # {} /\ Cardinality(votes) = Cardinality(resp.before) + 1

\* C12: deduplication is by origin hash only: a valid submission for a
\* registered artist from an identity without a stored vote for it is
\* accepted with 200, whatever cookie it carries.
C12_OriginOnlyDedup ==
    (IsVote /\ ReqValidScore /\ ReqKnownArtist /\ PriorVotes = {}) =>
        resp.status = 200

IsBoard == resp.route = "leaderboard"

\* The sum of an artist's stored scores, counted score by score.
RECURSIVE ScoreTally(_, _)
ScoreTally(i, x) ==
    IF x = 0 THEN 0
    ELSE x * Cardinality({v \in votes : v.artist_id = i /\ v.score = 2 * x})
         + ScoreTally(i, x - 1)
StoredTotal(i) == ScoreTally(i, 10)
StoredCount(i) == Cardinality({v \in votes : v.artist_id = i})

\* C13: the leaderboard has one row for every registered artist, with
\* vote_count the number of its stored votes, total_score their sum (0 when
\* none) and avg_score the nearest hundredth of total_score / vote_count, or
\* null when there is no vote.
C13_LeaderboardAggregates ==
    IsBoard =>
        /\ Len(resp.rows) = Len(artists)
        /\ \A i \in 1..Len(artists) :
              \E k \in 1..Len(resp.rows) :
                  LET r == resp.rows[k]
                      n == StoredCount(i)
                      t == StoredTotal(i)
                  IN  /\ r.id = i
                      /\ r.votes = n
                      /\ r.total_score = {t}
                      /\ n = 0 => r.avg_score = {}
                      /\ n > 0 => \E a \in r.avg_score :
                                     /\ 2 * (a * n - 100 * t) <= n
                                     /\ 2 * (100 * t - a * n) <= n

\* C14: the rows are ordered by total_score descending, then vote_count
\* descending, then name ascending, and the keys order any two rows
\* strictly, so that they determine one single sequence.
DocumentedBefore(r, s) ==
    \/ StoredTotal(r.id) > StoredTotal(s.id)
    \/ /\ StoredTotal(r.id) = StoredTotal(s.id)
       /\ \/ r.votes > s.votes
          \/ r.votes = s.votes /\ NameLess(r.name, s.name)
C14_TotalOrder ==
    IsBoard =>
        \A k, l \in 1..Len(resp.rows) :
            k < l => DocumentedBefore(resp.rows[k], resp.rows[l])

IsCreate == resp.route \in {"artists", "artists_form"}

\* The request reached isStaff: the form route, and the API route of
\* part_000 and part_001.
StaffGated == resp.route = "artists_form" \/ (resp.route = "artists" /\ variant # "app.js")

\* The name is missing or empty after trimming.
BlankName == resp.name \in {"", "  "}

\* C16: POST /api/artists without the staff capability is answered 403 and
\* creates no artist; stated for a request with a name, so that the staff
\* gate alone decides the reply.
C16_CreateNeedsStaff ==
    (resp.route = "artists" /\ ~resp.staff /\ ~BlankName) =>
        (resp.status = 403 /\ artists = resp.registry)

\* C17: a creation whose name is missing or empty after trimming creates
\* nothing and is answered 400 (403 when the staff gate rejects the caller
\* first); no stored artist has an empty or blank name.
C17_BlankNameRejected ==
    /\ \A i \in 1..Len(artists) : artists[i].name \notin {"", "  "}
    /\ (IsCreate /\ BlankName) =>
          /\ artists = resp.registry
          /\ resp.status \in {400, 403}
          /\ (resp.staff \/ ~StaffGated) => resp.status = 400

\* A blank (whitespace-only) name from a staff caller was answered 400.
C17_Witness ==
    IsCreate /\ resp.name = "  " /\ resp.staff /\ StaffGated /\ resp.status = 400

\* C18: a creation with a non-empty name that passes the staff gate succeeds
\* whenever some suffix is still free for its slug: a collision of the
\* generated slug is retried, not answered 400.
SuffixFree ==
    \E x \in Suffixes :
        \A i \in 1..Len(resp.registry) :
            resp.registry[i].slug # <<Slugify(Trim(resp.name)), x>>
C18_CollisionRetried ==
    (IsCreate /\ ~BlankName /\ (resp.staff \/ ~StaffGated) /\ SuffixFree) =>
        resp.status \in {200, 302}

\* C19: votes and artists are append-only: no step removes or changes a
\* stored vote, and every artist keeps its id (position), name and slug.
C19_AppendOnly ==
    [][/\ votes \subseteq votes'
       /\ Len(artists) <= Len(artists')
       /\ \A i \in 1..Len(artists) : artists'[i] = artists[i]]_vars

\* Two votes are stored for a registered artist, and a later request of an
\* identity that has voted was handled.
C19_Witness ==
    /\ IsVote /\ artists # <<>> /\ Cardinality(votes) >= 2
    /\ PriorVotes # {} /\ PriorAge > 0

\* C20: a caller passes the staff gate only if the server issued it the
\* staff cookie after a successful password check: a login with a wrong or
\* empty password sets no cookie, and an artist created through isStaff
\* was created by a caller the server has issued the cookie to.
C20_StaffOnlyAfterLogin ==
    /\ (resp.route = "login" /\ resp.password \notin {STAFF_PASS, " hunter2 "}) =>
          (~resp.setCookie /\ resp.status = 401 /\ ~issued)
    /\ (StaffGated /\ artists # resp.registry) => issued

\* The first entry of x-forwarded-for, trimmed; "" without a header.
FirstEntry(req) == IF req.xff = <<>> THEN "" ELSE Trim(Head(req.xff))

\* The positions of the header's entries that are not blank.
FilledEntries(req) == {i \in 1..Len(req.xff) : Trim(req.xff[i]) # ""}

\* The origin as documented: the first entry of the header when there is
\* one, else the transport-layer address, else the sentinel.
DocumentedOrigin(req) ==
    IF FirstEntry(req) # "" THEN FirstEntry(req)
    ELSE IF req.remote # "" THEN req.remote
    ELSE "0.0.0.0"

\* The origin with the step part_000 and part_001 take in between: when the
\* first entry is blank, the last entry of the header that is not.
ResolvedOrigin(req) ==
    IF FirstEntry(req) # "" THEN FirstEntry(req)
    ELSE IF variant # "app.js" /\ FilledEntries(req) # {}
    THEN Trim(req.xff[CHOOSE i \in FilledEntries(req) : \A k \in FilledEntries(req) : k <= i])
    ELSE IF req.remote # "" THEN req.remote
    ELSE "0.0.0.0"

\* The rows the request added.
AddedVotes == votes \ resp.before

\* C21 as stated: an accepted vote is stored under the hash of the first
\* header entry when the header has one, else of the transport-layer
\* address, else of "0.0.0.0".
C21_OriginTiers ==
    (IsVote /\ resp.status = 200) =>
        \A v \in AddedVotes : v.ip_hash = ipHash(DocumentedOrigin(resp.req))

\* C21: clientIp resolves the origin as the first entry of x-forwarded-for
\* when that entry is not blank; otherwise, in part_000 and part_001, as the
\* last entry of the header that is not blank, if any; otherwise as the
\* transport-layer address; otherwise as "0.0.0.0".  The origin is never
\* empty, a valid submission in unlimited mode is answered 200 or 409 and
\* never rejected for its origin, it is accepted exactly when no vote for
\* the artist is stored under the hash of its origin, and the row it adds
\* carries that hash, so two requests resolving to one origin share one
\* identity.
C21_OriginResolved ==
    (IsVote /\ ReqValidScore /\ ReqKnownArtist /\ VOTE_WINDOW_MINUTES = 0
        /\ resp.req.cookie = 0) =>
        LET origin == ResolvedOrigin(resp.req)
            prior == VotesOf(resp.before, resp.req.artist_id.h \div 2, ipHash(origin))
        IN  /\ origin # ""
            /\ resp.status \in {200, 409}
            /\ resp.status = 200 <=> prior = {}
            /\ resp.status = 200 =>
                  /\ Cardinality(AddedVotes) = 1
                  /\ \A v \in AddedVotes : v.ip_hash = ipHash(origin)

\* A submission without a forwarded entry and without a socket address was
\* accepted under the sentinel, and a later one was refused with 409 for it.
C21_Witness ==
    /\ IsVote /\ resp.status = 409
    /\ FilledEntries(resp.req) = {} /\ resp.req.remote = ""
    /\ \E v \in resp.before : v.ip_hash = ipHash("0.0.0.0")

\* C22: in unlimited mode a caller with one transport-layer address has at
\* most one vote accepted per artist, whatever x-forwarded-for values and
\* cookies its submissions carry.  Every request of Spec comes from the one
\* address of Remotes, so the store holds at most one vote per artist.
C22_OneVotePerCaller ==
    VOTE_WINDOW_MINUTES = 0 =>
        \A v \in votes : \A w \in votes : v.artist_id = w.artist_id => v = w
====
